---- MODULE Spec2Model ----
\* Bunk Buzz backend: the attendance calculator (the Subject virtuals) and the
\* handlers that serve it (getSubjectStats, predictBunk, simulateBunks).
\*
\* Units.  A percentage that went through toFixed(2) is an integer number of
\* hundredths of a percent (7500 is 75.00).  minimumAttendance is any float in
\* [0, 100]; it is kept as an exact fraction <<num, den>> of a percent
\* (<<825, 16>> is 51.5625).  Comparisons between the two are made by
\* cross-multiplication, and the comparisons the loops make on unrounded
\* doubles are made as IEEE-754 binary64 makes them.
EXTENDS Integers, Sequences, FiniteSets, TLC

\* ---------------------------------------------------------------- bounds
\* largest totalLectures of a stored subject
MaxTotal == 64
\* iterations after which a search loop is reported as not terminating; every
\* terminating loop of the subjects below ends well before (see FuelSuffices)
MaxIter == 256
\* DailyAttendance documents created in one behaviour
MaxRecords == 1

\* ------------------------------------------------------ program constants
\* simulateBunks: "Cannot simulate more than 50 bunks"
SimulateMax == 50

\* ---------------------------------------------------------- input domains
\* minimumAttendance values: 0 and 100 (the ends of the validator's range),
\* 75 (the schema default), 58 (0.58 * 100 is 57.99999999999999 in doubles),
\* 50, 66.67 (2/3 rounds up to it) and 51.5625 (= 33/64 exactly, four
\* decimals, so toFixed(2) rounds the percentage below it)
MinimumValues ==
  { <<0, 1>>, <<50, 1>>, <<825, 16>>, <<58, 1>>, <<6667, 100>>, <<75, 1>>, <<100, 1>> }

\* the one stored subject's id, and an id no subject of the user has
OwnSubjectId == "s1"
RequestSubjectIds == {OwnSubjectId, "s2"}

\* request bodies of simulateBunks: numberOfBunks absent, or an integer around
\* the two limits of the validation
NumberOfBunksValues == (-1 .. 5) \cup (SimulateMax .. (SimulateMax + 2))

VARIABLES
  subject,      \* the stored Subject document (the counters and the threshold)
  request,      \* the operation asked for: [op, body]
  response,     \* what it returned: [op, status, body]
  attendance,   \* the DailyAttendance collection: records [_id, date, status]
  nextRecordId, \* the _id the next DailyAttendance document gets
  calls,        \* the attendance and subject handlers in flight, per caller
  created,      \* history: the counters createSubject stored, and whether
                \* updateSubject has edited a counter since
  users,        \* the User collection, by email
  pendingUsers, \* the PendingUser collection, by email
  issued,       \* the number of verification tokens generated so far
  chosen,       \* history: the password each email's owner last signed up with
  now,          \* the clock, in the seconds a token's iat is counted in
  timetable     \* the Timetable collection: entries [_id, dayOfWeek,
                \* startTime, endTime, isActive]

\* what the calculator has no business with
others ==
  <<attendance, nextRecordId, calls, created, users, pendingUsers, issued, chosen, now,
    timetable>>

vars == <<subject, request, response, others>>

\* ------------------------------------------- IEEE-754 binary64 arithmetic
\* A positive double is <<e, top, l1, l2, l3>>: its value is M * 2^(e - 52)
\* with the 53-bit significand M = top*2^48 + l1*2^32 + l2*2^16 + l3 and
\* 16 <= top <= 31.
Limb == 2^16

RECURSIVE FlNormalize(_, _, _)
\* n/d = n'/d' * 2^e with 1 <= n'/d' < 2
FlNormalize(n, d, e) ==
  IF n < d THEN FlNormalize(2 * n, d, e - 1)
  ELSE IF n >= 2 * d THEN FlNormalize(n, 2 * d, e + 1)
  ELSE <<n, d, e>>

\* one unit in the last place more, carrying through the limbs
FlIncrement(x) ==
  IF x[5] + 1 < Limb THEN <<x[1], x[2], x[3], x[4], x[5] + 1>>
  ELSE IF x[4] + 1 < Limb THEN <<x[1], x[2], x[3], x[4] + 1, 0>>
  ELSE IF x[3] + 1 < Limb THEN <<x[1], x[2], x[3] + 1, 0, 0>>
  ELSE IF x[2] + 1 < 32 THEN <<x[1], x[2] + 1, 0, 0, 0>>
  ELSE <<x[1] + 1, 16, 0, 0, 0>>

\* round to nearest, ties to even; rem/unit is the discarded fraction
FlRound(x, rem, unit) ==
  IF 2 * rem > unit \/ (2 * rem = unit /\ x[5] % 2 = 1) THEN FlIncrement(x) ELSE x

\* JavaScript's n / d for integers n, d >= 1: the double nearest to n/d
FlDiv(n, d) ==
  LET nd  == FlNormalize(n, d, 0)
      nn  == nd[1]
      dd  == nd[2]
      top == (16 * nn) \div dd
      r0  == (16 * nn) % dd
      l1  == (r0 * Limb) \div dd
      r1  == (r0 * Limb) % dd
      l2  == (r1 * Limb) \div dd
      r2  == (r1 * Limb) % dd
      l3  == (r2 * Limb) \div dd
      r3  == (r2 * Limb) % dd
  IN  FlRound(<<nd[3], top, l1, l2, l3>>, r3, dd)

\* JavaScript's x * 100: the double nearest to the exact product
FlMul100(x) ==
  LET p3  == x[5] * 100
      p2  == x[4] * 100 + (p3 \div Limb)
      p1  == x[3] * 100 + (p2 \div Limb)
      pt  == x[2] * 100 + (p1 \div Limb)
      a1  == p1 % Limb
      a2  == p2 % Limb
      a3  == p3 % Limb
      s   == IF pt >= 2048 THEN 7 ELSE 6
      D   == 2^s
      top == pt \div D
      l1  == ((pt % D) * Limb + a1) \div D
      l2  == ((a1 % D) * Limb + a2) \div D
      l3  == ((a2 % D) * Limb + a3) \div D
  IN  FlRound(<<x[1] + s, top, l1, l2, l3>>, a3 % D, D)

RECURSIVE FlLexGE(_, _, _)
FlLexGE(x, y, i) ==
  IF i > 5 THEN TRUE
  ELSE IF x[i] # y[i] THEN x[i] > y[i]
  ELSE FlLexGE(x, y, i + 1)

\* x >= y for two positive doubles
FlGE(x, y) == FlLexGE(x, y, 1)

\* ------------------------------------------------------- the calculator
\* (attended / total) * 100 >= minimum, on doubles, for total >= 1.
\* When the exact values differ they differ by at least 1/(den * total) of a
\* percent, far more than the two roundings of the left side (2^-45 percent),
\* so the doubles compare as the exact values do; when the exact values are
\* equal the doubles decide.
RawPercentGE(attended, total, minimum) ==
  LET lhs == attended * 100 * minimum[2]
      rhs == minimum[1] * total
  IN  IF lhs # rhs THEN lhs > rhs
      ELSE IF attended = 0 THEN TRUE
      ELSE FlGE(FlMul100(FlDiv(attended, total)), FlDiv(minimum[1], minimum[2]))

\* mutant of PercentFixed2: the share of lectures missed, not attended
PercentAbsent2(attended, total) ==
  ((total - attended) * 20000 + total) \div (2 * total)

\* mutant of PercentFixed2: the hundredths are cut off, not rounded
PercentTruncated2(attended, total) == (attended * 10000) \div total

\* Number(((attended / total) * 100).toFixed(2)) in hundredths of a percent,
\* for total >= 1: toFixed rounds to the nearest hundredth and takes the
\* larger one on a tie.  (Below total = 160 every tie is a multiple of 1/32,
\* which the double holds exactly.)
PercentFixed2(attended, total) == (attended * 20000 + total) \div (2 * total)

\* percentage >= minimum for a percentage in hundredths
FixedGE(percentage, minimum) == percentage * minimum[2] >= 100 * minimum[1]

\* subjectSchema.virtual('attendancePercentage')
attendancePercentage(s) ==
  IF s.totalLectures = 0 THEN 0
  ELSE PercentFixed2(s.attendedLectures, s.totalLectures)

\* subjectSchema.virtual('absentLectures')
absentLectures(s) == s.totalLectures - s.attendedLectures

\* the result of a loop that does not end.  At minimum 0 the safeBunks test
\* holds at every count; at minimum 100 below full attendance the recovery
\* tests hold at every count below about 2^53, which no request lives to see.
Diverges == -1

\* A counting loop  `let c = 0; while (test(c)) c++`  leaves with the first
\* count at which its test fails, every earlier count having passed; it does
\* not end when no count fails (looked for up to MaxIter).

\* let needed = 0;
\* while (((attended + needed + 1) / (total + needed + 1)) * 100 < minimum) needed++;
ClassesNeededLoop(attended, total, minimum) ==
  IF \E c \in 0..MaxIter : RawPercentGE(attended + c + 1, total + c + 1, minimum)
  THEN CHOOSE c \in 0..MaxIter :
         /\ RawPercentGE(attended + c + 1, total + c + 1, minimum)
         /\ \A k \in 0..(c - 1) : ~RawPercentGE(attended + k + 1, total + k + 1, minimum)
  ELSE Diverges

\* mutant of classesNeeded: the guard is inverted (0 below the minimum)
classesNeededGuardInverted(s) ==
  IF ~FixedGE(attendancePercentage(s), s.minimumAttendance) THEN 0
  ELSE LET needed == ClassesNeededLoop(s.attendedLectures, s.totalLectures,
                                       s.minimumAttendance)
       IN  IF needed = Diverges THEN Diverges ELSE needed + 1

\* subjectSchema.virtual('classesNeeded')
classesNeeded(s) ==
  IF FixedGE(attendancePercentage(s), s.minimumAttendance) THEN 0
  ELSE LET needed == ClassesNeededLoop(s.attendedLectures, s.totalLectures,
                                       s.minimumAttendance)
       IN  IF needed = Diverges THEN Diverges ELSE needed + 1

\* let bunks = 0;
\* while ((attended / (total + bunks + 1)) * 100 >= minimum) bunks++;
SafeBunksLoop(attended, total, minimum) ==
  IF \E c \in 0..MaxIter : ~RawPercentGE(attended, total + c + 1, minimum)
  THEN CHOOSE c \in 0..MaxIter :
         /\ ~RawPercentGE(attended, total + c + 1, minimum)
         /\ \A k \in 0..(c - 1) : RawPercentGE(attended, total + k + 1, minimum)
  ELSE Diverges

\* mutant of safeBunks: below the minimum it returns the neighbouring
\* virtual's value, classesNeeded, in place of 0
safeBunksNeededBelow(s) ==
  IF ~FixedGE(attendancePercentage(s), s.minimumAttendance) THEN classesNeeded(s)
  ELSE SafeBunksLoop(s.attendedLectures, s.totalLectures, s.minimumAttendance)

\* subjectSchema.virtual('safeBunks')
safeBunks(s) ==
  IF ~FixedGE(attendancePercentage(s), s.minimumAttendance) THEN 0
  ELSE SafeBunksLoop(s.attendedLectures, s.totalLectures, s.minimumAttendance)

\* ------------------------------------------------------------ responses
NoRequest == [op |-> "none", body |-> <<>>]
NoResponse == [op |-> "none", status |-> 0, body |-> <<>>]

\* the operation never returns: the loop named in the body does not end, and
\* the single-threaded server answers nothing any more
Hangs(op, loop) == [op |-> op, status |-> 0, body |-> [loop |-> loop]]

\* next(new AppError(message, status))
AppError(op, status, message) ==
  [op |-> op, status |-> status, body |-> [message |-> message]]

\* the callers whose requests may be in flight together, and a caller at rest
Callers == {1, 2}
Idle == [pc |-> "idle"]

\* ---------------------------------------------------------------- Init
ValidSubjects ==
  { [_id |-> OwnSubjectId, attendedLectures |-> a, totalLectures |-> t,
     minimumAttendance |-> m] :
      a \in 0..MaxTotal, t \in 0..MaxTotal, m \in MinimumValues }

\* nothing marked, nothing in flight, nobody signed up
Quiet ==
  /\ attendance = {}
  /\ nextRecordId = 1
  /\ calls = [p \in Callers |-> Idle]
  /\ users = <<>>
  /\ pendingUsers = <<>>
  /\ issued = 0
  /\ chosen = <<>>
  /\ now = 0
  /\ timetable = {}

Init ==
  /\ subject \in { s \in ValidSubjects : s.attendedLectures <= s.totalLectures }
  /\ request = NoRequest
  /\ response = NoResponse
  /\ created = [totalLectures |-> subject.totalLectures,
                attendedLectures |-> subject.attendedLectures, edited |-> FALSE]
  /\ Quiet

\* Every behaviour is one operation on one stored subject: the calculator and
\* its handlers keep nothing from one request to the next.

\* ------------------------------------------------- the virtuals, read alone
GetAttendancePercentage ==
  /\ response = NoResponse
  /\ request' = [op |-> "attendancePercentage", body |-> <<>>]
  /\ response' = [op |-> "attendancePercentage", status |-> 200,
                  body |-> [value |-> attendancePercentage(subject)]]
  /\ UNCHANGED <<subject, others>>

GetClassesNeeded ==
  /\ response = NoResponse
  /\ request' = [op |-> "classesNeeded", body |-> <<>>]
  /\ LET needed == classesNeeded(subject)
     IN  response' = IF needed = Diverges
                     THEN Hangs("classesNeeded", "classesNeeded")
                     ELSE [op |-> "classesNeeded", status |-> 200,
                           body |-> [value |-> needed]]
  /\ UNCHANGED <<subject, others>>

GetSafeBunks ==
  /\ response = NoResponse
  /\ request' = [op |-> "safeBunks", body |-> <<>>]
  /\ LET bunks == safeBunks(subject)
     IN  response' = IF bunks = Diverges
                     THEN Hangs("safeBunks", "safeBunks")
                     ELSE [op |-> "safeBunks", status |-> 200,
                           body |-> [value |-> bunks]]
  /\ UNCHANGED <<subject, others>>

\* ---------------------------------------------------------- handlers
\* Subject.findOne({ _id: subjectId, userId: req.user._id })
Found(subjectId) == subjectId = subject._id

\* GET /api/subjects/:id/stats
getSubjectStats(subjectId) ==
  LET bunks  == safeBunks(subject)
      needed == classesNeeded(subject)
  IN  IF ~Found(subjectId) THEN AppError("getSubjectStats", 404, "Subject not found")
      ELSE IF bunks = Diverges THEN Hangs("getSubjectStats", "safeBunks")
      ELSE IF needed = Diverges THEN Hangs("getSubjectStats", "classesNeeded")
      ELSE [op |-> "getSubjectStats", status |-> 200,
            body |-> [currentAttendance |-> attendancePercentage(subject),
                      safeBunks         |-> bunks,
                      classesNeeded     |-> needed,
                      totalLectures     |-> subject.totalLectures,
                      attendedLectures  |-> subject.attendedLectures,
                      missedLectures    |-> subject.totalLectures - subject.attendedLectures,
                      minimumAttendance |-> subject.minimumAttendance,
                      isAboveMinimum    |-> FixedGE(attendancePercentage(subject),
                                                    subject.minimumAttendance)]]

GetSubjectStats ==
  /\ response = NoResponse
  /\ \E subjectId \in RequestSubjectIds :
       /\ request' = [op |-> "getSubjectStats", body |-> [subjectId |-> subjectId]]
       /\ response' = getSubjectStats(subjectId)
  /\ UNCHANGED <<subject, others>>

\* predictBunk's search, after the bunk (total is totalLectures + 1):
\* while (((attended + n + 1) / (total + n + 1)) * 100 < minAttendance) n++;
RecoverLoop(attended, total, minAttendance) ==
  IF \E c \in 0..MaxIter : RawPercentGE(attended + c + 1, total + c + 1, minAttendance)
  THEN CHOOSE c \in 0..MaxIter :
         /\ RawPercentGE(attended + c + 1, total + c + 1, minAttendance)
         /\ \A k \in 0..(c - 1) :
              ~RawPercentGE(attended + k + 1, total + k + 1, minAttendance)
  ELSE Diverges

\* mutant of classesNeededToRecover: the increment after the loop is left out
classesNeededToRecoverNoIncrement(attended, total, minAttendance) ==
  RecoverLoop(attended, total, minAttendance)

\* predictBunk: the loop, then classesNeededToRecover++
classesNeededToRecover(attended, total, minAttendance) ==
  LET n == RecoverLoop(attended, total, minAttendance)
  IN  IF n = Diverges THEN Diverges ELSE n + 1

\* POST /api/bunk-predictor/predict
predictBunk(subjectId) ==
  LET currentPercentage   == attendancePercentage(subject)
      minAttendance       == subject.minimumAttendance
      afterBunkAttended   == subject.attendedLectures
      afterBunkTotal      == subject.totalLectures + 1
      afterBunkPercentage == PercentFixed2(afterBunkAttended, afterBunkTotal)
      canBunk             == FixedGE(afterBunkPercentage, minAttendance)
      bunks               == safeBunks(subject)
      recover             == IF canBunk THEN 0
                             ELSE classesNeededToRecover(subject.attendedLectures,
                                    subject.totalLectures + 1, minAttendance)
  IN  IF ~Found(subjectId) THEN AppError("predictBunk", 404, "Subject not found")
      ELSE IF bunks = Diverges THEN Hangs("predictBunk", "safeBunks")
      ELSE IF recover = Diverges THEN Hangs("predictBunk", "classesNeededToRecover")
      ELSE [op |-> "predictBunk", status |-> 200,
            body |-> [canBunk                |-> canBunk,
                      safeBunks              |-> bunks,
                      currentAttendance      |-> currentPercentage,
                      afterBunkAttendance    |-> afterBunkPercentage,
                      minimumRequired        |-> minAttendance,
                      attendanceDrop         |-> currentPercentage - afterBunkPercentage,
                      classesNeededToRecover |-> recover,
                      details |-> [currentTotal      |-> subject.totalLectures,
                                   currentAttended   |-> subject.attendedLectures,
                                   afterBunkTotal    |-> afterBunkTotal,
                                   afterBunkAttended |-> afterBunkAttended]]]

\* mutant of PredictBunk: the predicted bunk is written to the subject
PredictBunkCommits ==
  /\ response = NoResponse
  /\ \E subjectId \in RequestSubjectIds :
       /\ request' = [op |-> "predictBunk", body |-> [subjectId |-> subjectId]]
       /\ response' = predictBunk(subjectId)
       /\ subject' = IF Found(subjectId)
                     THEN [subject EXCEPT !.totalLectures = @ + 1]
                     ELSE subject
  /\ UNCHANGED others

PredictBunk ==
  /\ response = NoResponse
  /\ \E subjectId \in RequestSubjectIds :
       /\ request' = [op |-> "predictBunk", body |-> [subjectId |-> subjectId]]
       /\ response' = predictBunk(subjectId)
  /\ UNCHANGED <<subject, others>>

\* one pass of simulateBunks' loop body: the record pushed at step i, given
\* the running total before the step
SimulationRecord(i, attended, total, minimumAttendance) ==
  LET total1     == total + 1
      percentage == PercentFixed2(attended, total1)
      isSafe     == FixedGE(percentage, minimumAttendance)
  IN  [bunkNumber       |-> i,
       totalLectures    |-> total1,
       attendedLectures |-> attended,
       attendance       |-> percentage,
       isSafe           |-> isSafe,
       status           |-> IF isSafe THEN "safe" ELSE "danger"]

RECURSIVE SimulateLoopOneMore(_, _, _, _, _, _)
\* mutant of SimulateLoop: the loop runs while i <= numberOfBunks + 1
SimulateLoopOneMore(simulation, attended, total, i, numberOfBunks, minimumAttendance) ==
  IF i > numberOfBunks + 1 THEN simulation
  ELSE SimulateLoopOneMore(
         Append(simulation,
                SimulationRecord(i, attended, total, minimumAttendance)),
         attended, total + 1, i + 1, numberOfBunks, minimumAttendance)

RECURSIVE SimulateLoopStrict(_, _, _, _, _, _)
\* mutant of SimulateLoop: isSafe = percentage > minimumAttendance
SimulateLoopStrict(simulation, attended, total, i, numberOfBunks, minimumAttendance) ==
  IF i > numberOfBunks THEN simulation
  ELSE SimulateLoopStrict(
         Append(simulation,
                LET record == SimulationRecord(i, attended, total, minimumAttendance)
                    isSafe == record.attendance * minimumAttendance[2]
                                > 100 * minimumAttendance[1]
                IN  [record EXCEPT !.isSafe = isSafe,
                                   !.status = IF isSafe THEN "safe" ELSE "danger"]),
         attended, total + 1, i + 1, numberOfBunks, minimumAttendance)

RECURSIVE SimulateLoopCountDown(_, _, _, _, _, _)
\* mutant of SimulateLoop: bunkNumber counts the bunks still to come
SimulateLoopCountDown(simulation, attended, total, i, numberOfBunks, minimumAttendance) ==
  IF i > numberOfBunks THEN simulation
  ELSE SimulateLoopCountDown(
         Append(simulation,
                [SimulationRecord(i, attended, total, minimumAttendance)
                   EXCEPT !.bunkNumber = numberOfBunks - i + 1]),
         attended, total + 1, i + 1, numberOfBunks, minimumAttendance)

RECURSIVE SimulateLoop(_, _, _, _, _, _)
\* for (let i = 1; i <= numberOfBunks; i++) { total += 1; ... simulation.push(...) }
SimulateLoop(simulation, attended, total, i, numberOfBunks, minimumAttendance) ==
  IF i > numberOfBunks THEN simulation
  ELSE SimulateLoop(
         Append(simulation,
                SimulationRecord(i, attended, total, minimumAttendance)),
         attended, total + 1, i + 1, numberOfBunks, minimumAttendance)

\* mutant of findIndexUnsafe: findLastIndex, the last unsafe step
findLastIndexUnsafe(simulation) ==
  IF \E k \in 1..Len(simulation) : ~simulation[k].isSafe
  THEN (CHOOSE k \in 1..Len(simulation) :
          ~simulation[k].isSafe /\ \A j \in (k + 1)..Len(simulation) : simulation[j].isSafe) - 1
  ELSE -1

\* simulation.findIndex((s) => !s.isSafe): 0-based, -1 when there is none
findIndexUnsafe(simulation) ==
  IF \E k \in 1..Len(simulation) : ~simulation[k].isSafe
  THEN (CHOOSE k \in 1..Len(simulation) :
          ~simulation[k].isSafe /\ \A j \in 1..(k - 1) : simulation[j].isSafe) - 1
  ELSE -1

\* JavaScript's null, in a field whose other values are positive
Null == 0

\* POST /api/bunk-predictor/simulate; reqBody holds subjectId and, when the
\* request gives one, numberOfBunks
simulateBunks(reqBody) ==
  IF "numberOfBunks" \notin DOMAIN reqBody
     \/ reqBody.numberOfBunks = 0 \/ reqBody.numberOfBunks < 1
  THEN AppError("simulateBunks", 400, "Number of bunks must be at least 1")
  ELSE IF reqBody.numberOfBunks > SimulateMax
  THEN AppError("simulateBunks", 400, "Cannot simulate more than 50 bunks")
  ELSE IF ~Found(reqBody.subjectId)
  THEN AppError("simulateBunks", 404, "Subject not found")
  ELSE LET numberOfBunks == reqBody.numberOfBunks
           simulation    == SimulateLoop(<<>>, subject.attendedLectures,
                              subject.totalLectures, 1, numberOfBunks,
                              subject.minimumAttendance)
           turningPoint  == findIndexUnsafe(simulation)
       IN  [op |-> "simulateBunks", status |-> 200,
            body |-> [subject    |-> [id |-> subject._id,
                                      currentAttendance |-> attendancePercentage(subject)],
                      simulation |-> simulation,
                      analysis   |-> [requestedBunks  |-> numberOfBunks,
                                      safeBunks       |-> IF turningPoint = -1
                                                          THEN numberOfBunks
                                                          ELSE turningPoint,
                                      turningPoint    |-> IF turningPoint = -1
                                                          THEN Null
                                                          ELSE turningPoint + 1,
                                      finalAttendance |->
                                        simulation[Len(simulation)].attendance]]]

SimulateBodies ==
  { [subjectId |-> id] : id \in RequestSubjectIds } \cup
  { [subjectId |-> id, numberOfBunks |-> n] :
      id \in RequestSubjectIds, n \in NumberOfBunksValues }

SimulateBunks ==
  /\ response = NoResponse
  /\ \E reqBody \in SimulateBodies :
       /\ request' = [op |-> "simulateBunks", body |-> reqBody]
       /\ response' = simulateBunks(reqBody)
  /\ UNCHANGED <<subject, others>>

\* ===================================================== the subject store
\* createSubject, updateSubject and the attendance handlers.  Each await of a
\* handler that writes is a step of its own: another request may run between
\* the load of a document and its save.  save() validates the handler's own
\* copy of the document and writes the paths that copy has modified.

\* no Subject document yet
NoSubject == [_id |-> "none"]
\* no DailyAttendance document (findOne gave null)
NoRecord == [_id |-> 0]

\* an error handed to next() that is no AppError: a Mongoose ValidationError,
\* a duplicate key, a document that is no longer there
Thrown(op, name) == [op |-> op, status |-> 500, body |-> [error |-> name]]

\* the day attendance is marked for, and the status values a request gives
\* ('late' is none of the schema's)
Dates == {"d1"}
StatusValues == {"present", "absent"}
UpdateStatusValues == StatusValues \cup {"late"}

\* a request field that may be absent: given is {} or {value}
Opt(name, given) == IF given = {} THEN <<>> ELSE (name :> (CHOOSE v \in given : TRUE))

\* request bodies of createSubject: each counter and the
\* minimum absent, valid, or outside its validator's range
SubjectBodies ==
  { Opt("totalLectures", t) @@ Opt("attendedLectures", a) @@ Opt("minimumAttendance", m) :
      t \in {{}, {-1}, {2}},
      a \in {{}, {-1}, {1}},
      m \in {{}, {<<50, 1>>}, {<<101, 1>>}} }

\* request bodies of updateSubject: a total below what was attended, an
\* attended count above the total or within it, a minimum out of range
UpdateSubjectBodies ==
  { Opt("totalLectures", t) @@ Opt("attendedLectures", a) @@ Opt("minimumAttendance", m) :
      t \in {{}, {0}}, a \in {{}, {1}}, m \in {{}, {<<101, 1>>}} }

\* subjectSchema: min 0 on both counters, attendedLectures <= this.totalLectures,
\* minimumAttendance in [0, 100]
Validates(doc) ==
  /\ doc.totalLectures >= 0
  /\ doc.attendedLectures >= 0
  /\ doc.attendedLectures <= doc.totalLectures
  /\ doc.minimumAttendance[1] >= 0
  /\ doc.minimumAttendance[1] <= 100 * doc.minimumAttendance[2]

SubjectPaths == {"totalLectures", "attendedLectures", "minimumAttendance"}

\* the schema defaults: 0 lectures, 0 attended, a minimum of 75
SubjectDefaults ==
  [_id |-> OwnSubjectId, totalLectures |-> 0, attendedLectures |-> 0,
   minimumAttendance |-> <<75, 1>>]

\* subject[field] = req.body[field] for every field the body gives
Assigned(doc, body) ==
  [f \in DOMAIN doc |-> IF f \in DOMAIN body THEN body[f] ELSE doc[f]]

\* the paths a handler's copy has modified since it was loaded
Modified(doc, loaded) == { f \in SubjectPaths : doc[f] # loaded[f] }

\* save(): the modified paths of the copy go to the stored document
Saved(stored, doc, paths) ==
  [f \in DOMAIN stored |-> IF f \in paths THEN doc[f] ELSE stored[f]]

\* DailyAttendance.findOne by date, and by _id
RecordAt(date) ==
  IF \E r \in attendance : r.date = date
  THEN CHOOSE r \in attendance : r.date = date
  ELSE NoRecord

RecordById(id) ==
  IF \E r \in attendance : r._id = id
  THEN CHOOSE r \in attendance : r._id = id
  ELSE NoRecord

\* the stored record id gets the status
StatusSet(id, status) ==
  { IF r._id = id THEN [r EXCEPT !.status = status] ELSE r : r \in attendance }

\* markAttendance, new record: totalLectures += 1, and attendedLectures += 1
\* when present
CountMarked(doc, status) ==
  [doc EXCEPT !.totalLectures = @ + 1,
              !.attendedLectures = IF status = "present" THEN @ + 1 ELSE @]

\* mutant of CountChanged: a changed status is counted as a new lecture
CountChangedAsMarked(doc, oldStatus, status) ==
  IF oldStatus # status THEN CountMarked(doc, status) ELSE doc

\* mutant of CountChanged: present -> absent leaves attendedLectures alone
CountChangedUpOnly(doc, oldStatus, status) ==
  IF oldStatus = "absent" /\ status = "present"
  THEN [doc EXCEPT !.attendedLectures = @ + 1]
  ELSE doc

\* markAttendance on an existing record, and updateAttendance: the status
\* went from oldStatus to status
CountChanged(doc, oldStatus, status) ==
  IF oldStatus = "present" /\ status = "absent"
  THEN [doc EXCEPT !.attendedLectures = @ - 1]
  ELSE IF oldStatus = "absent" /\ status = "present"
  THEN [doc EXCEPT !.attendedLectures = @ + 1]
  ELSE doc

\* deleteAttendance: totalLectures -= 1, and attendedLectures -= 1 when the
\* record was present
CountDeleted(doc, status) ==
  [doc EXCEPT !.totalLectures = @ - 1,
              !.attendedLectures = IF status = "present" THEN @ - 1 ELSE @]

\* the handler of caller p answers: res.status(..).json(..) or next(error)
Replies(p, req, res) ==
  /\ response = NoResponse
  /\ request' = req
  /\ response' = res
  /\ calls' = [calls EXCEPT ![p] = Idle]

\* the handler of caller p goes on to its next await.  An answer is on its
\* way only for one step: what the client does with it changes nothing here.
Continues(p, call) ==
  /\ response = NoResponse
  /\ calls' = [calls EXCEPT ![p] = call]
  /\ UNCHANGED <<request, response>>

\* the counters a handler reports: those of its own copy of the subject
Counters(doc) ==
  [totalLectures |-> doc.totalLectures, attendedLectures |-> doc.attendedLectures]

Success(op, status, doc) ==
  [op |-> op, status |-> status, body |-> [subject |-> Counters(doc)]]

authVars == <<users, pendingUsers, issued, chosen, now>>

\* POST /api/subjects.  The model keeps one subject: a second createSubject
\* would make another document and leave this one alone.
CreateSubject ==
  /\ response = NoResponse
  /\ subject = NoSubject
  /\ \E body \in SubjectBodies :
       LET doc == Assigned(SubjectDefaults, body)
       IN  /\ request' = [op |-> "createSubject", body |-> body]
           /\ IF Validates(doc)
              THEN /\ subject' = doc
                   /\ created' = [totalLectures |-> doc.totalLectures,
                                  attendedLectures |-> doc.attendedLectures,
                                  edited |-> FALSE]
                   /\ response' = Success("createSubject", 201, doc)
              ELSE /\ response' = Thrown("createSubject", "ValidationError")
                   /\ UNCHANGED <<subject, created>>
  /\ UNCHANGED <<attendance, nextRecordId, calls, authVars, timetable>>

\* PUT /api/subjects/:id, up to its save: findOne, then the assignments
UpdateSubjectLoad(p) ==
  /\ calls[p] = Idle
  /\ \E id \in RequestSubjectIds, body \in UpdateSubjectBodies :
       LET req == [op |-> "updateSubject", body |-> body]
           doc == Assigned(subject, body)
       IN  IF ~Found(id)
           THEN Replies(p, req, AppError("updateSubject", 404, "Subject not found"))
           ELSE Continues(p, [pc |-> "saveSubject", op |-> "updateSubject", req |-> req,
                              doc |-> doc, paths |-> Modified(doc, subject),
                              rec |-> NoRecord, status |-> 200])
  /\ UNCHANGED <<subject, attendance, nextRecordId, created, authVars, timetable>>

\* records another markAttendance in flight is about to create
RecordsToCome ==
  Cardinality({ q \in Callers : calls[q].pc = "markAttendance" /\ calls[q].rec = NoRecord })

\* POST /api/attendance, its two reads: the subject, and the record of the
\* day, for a day out of dates and with room for records documents in all
MarkAttendanceLoadOn(p, dates, records) ==
  /\ calls[p] = Idle
  /\ \E id \in RequestSubjectIds, date \in dates, status \in StatusValues :
       LET req == [op |-> "markAttendance",
                   body |-> [subjectId |-> id, date |-> date, status |-> status]]
       IN  IF ~Found(id)
           THEN Replies(p, req, AppError("markAttendance", 404, "Subject not found"))
           ELSE /\ RecordAt(date) = NoRecord
                   => nextRecordId + RecordsToCome <= records
                /\ Continues(p, [pc |-> "markAttendance", op |-> "markAttendance",
                                 req |-> req, doc |-> subject, paths |-> {},
                                 rec |-> RecordAt(date), status |-> 200])
  /\ UNCHANGED <<subject, attendance, nextRecordId, created, authVars, timetable>>

MarkAttendanceLoad(p) == MarkAttendanceLoadOn(p, Dates, MaxRecords)

\* mutant of DuplicateKey: the collection has no unique index
DuplicateKeyNever(date) == FALSE

\* the unique index on (userId, subjectId, date) rejects a second document
\* of the day
DuplicateKey(date) == RecordAt(date) # NoRecord

\* markAttendance: existing.save(), or DailyAttendance.create(..), and the
\* counts on the handler's copy of the subject
MarkAttendanceWrite(p) ==
  LET c      == calls[p]
      status == c.req.body.status
  IN  /\ c.pc = "markAttendance"
      /\ IF c.rec # NoRecord
         THEN IF status = c.rec.status
              THEN \* nothing is modified: save() writes nothing, the counts stay
                   /\ Replies(p, c.req, Success("markAttendance", 200, c.doc))
                   /\ UNCHANGED <<attendance, nextRecordId>>
              ELSE IF RecordById(c.rec._id) = NoRecord
              THEN /\ Replies(p, c.req, Thrown("markAttendance", "DocumentNotFoundError"))
                   /\ UNCHANGED <<attendance, nextRecordId>>
              ELSE /\ attendance' = StatusSet(c.rec._id, status)
                   /\ Continues(p, [c EXCEPT !.pc = "saveSubject",
                                             !.doc = CountChanged(c.doc, c.rec.status, status),
                                             !.paths = {"attendedLectures"}])
                   /\ UNCHANGED nextRecordId
         ELSE IF DuplicateKey(c.req.body.date)
              THEN \* DailyAttendance.create is rejected
                   /\ Replies(p, c.req, Thrown("markAttendance", "duplicate key"))
                   /\ UNCHANGED <<attendance, nextRecordId>>
              ELSE /\ attendance' = attendance \cup
                         {[_id |-> nextRecordId, date |-> c.req.body.date, status |-> status]}
                   /\ nextRecordId' = nextRecordId + 1
                   /\ Continues(p, [c EXCEPT !.pc = "saveSubject",
                                             !.doc = CountMarked(c.doc, status),
                                             !.paths = Modified(CountMarked(c.doc, status), c.doc),
                                             !.status = 201])
      /\ UNCHANGED <<subject, created, authVars, timetable>>

\* request bodies of updateAttendance: status absent or given
UpdateAttendanceBodies == { Opt("status", st) : st \in {{}} \cup { {v} : v \in UpdateStatusValues } }

\* PUT /api/attendance/:id, its two reads: the record, and its subject
UpdateAttendanceLoad(p) ==
  /\ calls[p] = Idle
  /\ \E id \in 1..MaxRecords, body \in UpdateAttendanceBodies :
       LET req == [op |-> "updateAttendance", id |-> id, body |-> body]
       IN  IF RecordById(id) = NoRecord
           THEN Replies(p, req, AppError("updateAttendance", 404,
                                         "Attendance record not found"))
           ELSE Continues(p, [pc |-> "updateAttendance", op |-> "updateAttendance",
                              req |-> req, doc |-> subject, paths |-> {},
                              rec |-> RecordById(id), status |-> 200])
  /\ UNCHANGED <<subject, attendance, nextRecordId, created, authVars, timetable>>

\* updateAttendance: attendance.save(), and the counts on the handler's copy
UpdateAttendanceWrite(p) ==
  LET c == calls[p]
  IN  /\ c.pc = "updateAttendance"
      /\ IF "status" \notin DOMAIN c.req.body \/ c.req.body.status = c.rec.status
         THEN /\ Replies(p, c.req, Success("updateAttendance", 200, c.doc))
              /\ UNCHANGED attendance
         ELSE IF c.req.body.status \notin StatusValues
         THEN \* the schema's enum
              /\ Replies(p, c.req, Thrown("updateAttendance", "ValidationError"))
              /\ UNCHANGED attendance
         ELSE IF RecordById(c.rec._id) = NoRecord
         THEN /\ Replies(p, c.req, Thrown("updateAttendance", "DocumentNotFoundError"))
              /\ UNCHANGED attendance
         ELSE /\ attendance' = StatusSet(c.rec._id, c.req.body.status)
              /\ Continues(p, [c EXCEPT !.pc = "saveSubject",
                                        !.doc = CountChanged(c.doc, c.rec.status,
                                                             c.req.body.status),
                                        !.paths = {"attendedLectures"}])
      /\ UNCHANGED <<subject, nextRecordId, created, authVars, timetable>>

\* DELETE /api/attendance/:id, its two reads and the counts on the copy
DeleteAttendanceLoad(p) ==
  /\ calls[p] = Idle
  /\ \E id \in 1..MaxRecords :
       LET req == [op |-> "deleteAttendance", id |-> id, body |-> <<>>]
           rec == RecordById(id)
           doc == CountDeleted(subject, rec.status)
       IN  IF rec = NoRecord
           THEN Replies(p, req, AppError("deleteAttendance", 404,
                                         "Attendance record not found"))
           ELSE Continues(p, [pc |-> "saveSubject", op |-> "deleteAttendance",
                              req |-> req, doc |-> doc, paths |-> Modified(doc, subject),
                              rec |-> rec, status |-> 200])
  /\ UNCHANGED <<subject, attendance, nextRecordId, created, authVars, timetable>>

\* await subject.save(), of updateSubject and of the three attendance handlers
SaveSubject(p) ==
  LET c == calls[p]
  IN  /\ c.pc = "saveSubject"
      /\ IF ~Validates(c.doc)
         THEN /\ Replies(p, c.req, Thrown(c.op, "ValidationError"))
              /\ UNCHANGED <<subject, created>>
         ELSE /\ subject' = Saved(subject, c.doc, c.paths)
              /\ created' = [created EXCEPT !.edited =
                               @ \/ (c.op = "updateSubject"
                                     /\ c.paths \cap {"totalLectures", "attendedLectures"} # {})]
              /\ IF c.op = "deleteAttendance"
                 THEN Continues(p, [c EXCEPT !.pc = "deleteOne"])
                 ELSE Replies(p, c.req, Success(c.op, c.status, c.doc))
      /\ UNCHANGED <<attendance, nextRecordId, authVars, timetable>>

\* deleteAttendance: DailyAttendance.deleteOne({ _id: attendance._id })
DeleteAttendanceDelete(p) ==
  LET c == calls[p]
  IN  /\ c.pc = "deleteOne"
      /\ attendance' = { r \in attendance : r._id # c.rec._id }
      /\ Replies(p, c.req, [op |-> "deleteAttendance", status |-> 200, body |-> <<>>])
      /\ UNCHANGED <<subject, nextRecordId, created, authVars, timetable>>

\* one await of one handler of caller p
AttendanceStep(p) ==
  \/ UpdateSubjectLoad(p)
  \/ MarkAttendanceLoad(p)
  \/ MarkAttendanceWrite(p)
  \/ UpdateAttendanceLoad(p)
  \/ UpdateAttendanceWrite(p)
  \/ DeleteAttendanceLoad(p)
  \/ SaveSubject(p)
  \/ DeleteAttendanceDelete(p)

\* the answer reaches the client; a handler that hangs answers nothing
Deliver ==
  /\ response # NoResponse
  /\ response.status # 0
  /\ request' = NoRequest
  /\ response' = NoResponse
  /\ UNCHANGED <<subject, others>>

\* Subject.find({ userId: req.user._id, isActive: true })
ActiveSubjects == IF subject = NoSubject THEN <<>> ELSE <<subject>>

\* POST /api/bunk-predictor/bulk-predict
bulkPredictBunk ==
  LET subjects == ActiveSubjects
      prediction(s) ==
        LET afterBunkPercentage == PercentFixed2(s.attendedLectures, s.totalLectures + 1)
        IN  [subjectId           |-> s._id,
             currentAttendance   |-> attendancePercentage(s),
             canBunk             |-> FixedGE(afterBunkPercentage, s.minimumAttendance),
             safeBunks           |-> safeBunks(s),
             afterBunkAttendance |-> afterBunkPercentage]
      predictions == [i \in 1..Len(subjects) |-> prediction(subjects[i])]
  IN  IF \E i \in 1..Len(subjects) : safeBunks(subjects[i]) = Diverges
      THEN Hangs("bulkPredictBunk", "safeBunks")
      ELSE [op |-> "bulkPredictBunk", status |-> 200,
            body |-> [summary |->
                        [totalSubjects  |-> Len(subjects),
                         safeSubjects   |-> Cardinality({ i \in 1..Len(subjects) :
                                                            predictions[i].canBunk }),
                         riskySubjects  |-> Cardinality({ i \in 1..Len(subjects) :
                                                            ~predictions[i].canBunk }),
                         totalSafeBunks |-> IF Len(subjects) = 0 THEN 0
                                            ELSE predictions[1].safeBunks],
                      predictions |-> predictions]]

BulkPredictBunk ==
  /\ response = NoResponse
  /\ request' = [op |-> "bulkPredictBunk", body |-> <<>>]
  /\ response' = bulkPredictBunk
  /\ UNCHANGED <<subject, others>>

\* GET /api/attendance/stats; every day of the model lies in the last seven
getAttendanceStats ==
  LET subjects == ActiveSubjects
      stats(s) == [id            |-> s._id,
                   attendance    |-> attendancePercentage(s),
                   safeBunks     |-> safeBunks(s),
                   classesNeeded |-> classesNeeded(s)]
      totalLectures == IF Len(subjects) = 0 THEN 0 ELSE subjects[1].totalLectures
      totalAttended == IF Len(subjects) = 0 THEN 0 ELSE subjects[1].attendedLectures
      aboveMin == { i \in 1..Len(subjects) :
                      FixedGE(attendancePercentage(subjects[i]),
                              subjects[i].minimumAttendance) }
  IN  IF \E i \in 1..Len(subjects) : safeBunks(subjects[i]) = Diverges
      THEN Hangs("getAttendanceStats", "safeBunks")
      ELSE IF \E i \in 1..Len(subjects) : classesNeeded(subjects[i]) = Diverges
      THEN Hangs("getAttendanceStats", "classesNeeded")
      ELSE [op |-> "getAttendanceStats", status |-> 200,
            body |-> [overall |->
                        [totalLectures     |-> totalLectures,
                         totalAttended     |-> totalAttended,
                         overallAttendance |-> IF totalLectures > 0
                                               THEN PercentFixed2(totalAttended, totalLectures)
                                               ELSE 0,
                         subjectsAboveMin  |-> Cardinality(aboveMin),
                         subjectsBelowMin  |-> Len(subjects) - Cardinality(aboveMin),
                         totalSubjects     |-> Len(subjects)],
                      recentActivity |->
                        [last7Days |->
                           [present |-> Cardinality({ r \in attendance : r.status = "present" }),
                            absent  |-> Cardinality({ r \in attendance : r.status = "absent" }),
                            total   |-> Cardinality(attendance)]],
                      subjects |-> [i \in 1..Len(subjects) |-> stats(subjects[i])]]]

GetAttendanceStats ==
  /\ response = NoResponse
  /\ request' = [op |-> "getAttendanceStats", body |-> <<>>]
  /\ response' = getAttendanceStats
  /\ UNCHANGED <<subject, others>>

\* ------------------------------------------------------------- accounts
\* What no account handler writes: the variables of the store, the clock and
\* the timetable.
storeVars == <<subject, attendance, nextRecordId, calls, created, now, timetable>>

\* the most verification tokens generateVerificationToken hands out in a run
MaxTokens == 2

\* the addresses requests name
Emails == {"a@x.io", "b@x.io"}

\* A string used as a password: a text a client typed (rounds = 0), or the
\* bcrypt hash of such a string (one more round).
Typed(text) == [text |-> text, rounds |-> 0]

\* bcrypt.hash(data, salt): a string no typed text and no hash of anything
\* else equals
bcryptHash(data) == [data EXCEPT !.rounds = @ + 1]

\* bcrypt.compare(data, hash): hash is a bcrypt hash of exactly data
bcryptCompare(data, hash) == hash = bcryptHash(data)

\* passwords signupValidation lets through, and the strings a login or a
\* password change may carry: any non-empty string, a hash's text included
SignupPasswords == {Typed("Secret1"), Typed("Other22")}
LoginPasswords == SignupPasswords \cup {bcryptHash(p) : p \in SignupPasswords}

\* pendingUserSchema.pre('save'): a document whose password is modified gets
\* it hashed
pendingUserPreSave(doc, modified) ==
  IF "password" \notin modified THEN doc
  ELSE [doc EXCEPT !.password = bcryptHash(@)]

\* userSchema.pre('save'): the same, for a user that has a password
userPreSave(doc, modified) ==
  IF "password" \notin modified \/ "password" \notin DOMAIN doc THEN doc
  ELSE [doc EXCEPT !.password = bcryptHash(@)]

\* userSchema.methods.comparePassword
comparePassword(user, candidatePassword) ==
  bcryptCompare(candidatePassword, user.password)

\* a collection keyed by email (its unique index), with one document put in
Put(collection, email, doc) ==
  [e \in DOMAIN collection \cup {email} |->
     IF e = email THEN doc ELSE collection[e]]

\* mutant of Without: deleteOne removes nothing
WithoutNothing(collection, email) == collection

\* deleteOne({ email }): the collection without the document of email
Without(collection, email) ==
  [e \in DOMAIN collection \ {email} |-> collection[e]]

\* no refresh token stored: user.refreshToken is null or was never set
NoToken == <<"none", "", 0>>

\* generateTokens(user): jwt.sign of { userId, email } under the access and
\* the refresh secret.  jwt.sign stamps the payload with iat, the second it
\* runs in, and adds nothing random: for one user and one second it gives one
\* and the same token.
generateTokens(user) ==
  [accessToken |-> <<"access", user.email, now>>,
   refreshToken |-> <<"refresh", user.email, now>>]

\* res.status(status).json({ data: { user, accessToken, refreshToken } })
Authenticated(op, user) ==
  [op |-> op, status |-> 200,
   body |-> [email |-> user.email] @@ generateTokens(user)]

\* res.status(status).json({ message }) of the handlers that issue no token
Done(op, status, email) == [op |-> op, status |-> status, body |-> [email |-> email]]

\* POST /api/auth/signup
Signup ==
  \E email \in Emails, password \in SignupPasswords, emailSent \in BOOLEAN :
    LET body == [email |-> email, password |-> password]
        pendingUser == pendingUserPreSave(
                         [email |-> email, password |-> password,
                          verificationToken |-> issued + 1, expired |-> FALSE],
                         {"password"})
    IN  /\ request' = [op |-> "signup", body |-> body]
        /\ IF email \in DOMAIN users
             THEN /\ response' = AppError("signup", 400, "User with this email already exists")
                  /\ UNCHANGED <<pendingUsers, issued, chosen>>
             ELSE /\ issued < MaxTokens
                  /\ pendingUsers' = Put(Without(pendingUsers, email), email, pendingUser)
                  /\ issued' = issued + 1
                  /\ chosen' = Put(chosen, email, [password |-> password, verified |-> FALSE])
                  /\ response' = [op |-> "signup", status |-> 201,
                                  body |-> [email |-> email, emailSent |-> emailSent]]
        /\ UNCHANGED <<users, storeVars>>

\* request bodies of verifyEmail: no token, or a token
VerifyEmailBodies == {<<>>} \cup {[token |-> t] : t \in 1..MaxTokens}

\* POST /api/auth/verify-email
VerifyEmail ==
  \E body \in VerifyEmailBodies :
    LET found == IF "token" \in DOMAIN body
                   THEN {e \in DOMAIN pendingUsers :
                           /\ pendingUsers[e].verificationToken = body.token
                           /\ ~pendingUsers[e].expired}
                   ELSE {}
    IN  /\ request' = [op |-> "verifyEmail", body |-> body]
        /\ IF "token" \notin DOMAIN body
             THEN /\ response' = AppError("verifyEmail", 400, "Verification token is required")
                  /\ UNCHANGED <<users, pendingUsers, chosen>>
             ELSE IF found = {}
             THEN /\ response' = AppError("verifyEmail", 400, "Invalid or expired verification token")
                  /\ UNCHANGED <<users, pendingUsers, chosen>>
             ELSE LET pendingUser == pendingUsers[CHOOSE e \in found : TRUE]
                      user == userPreSave(
                                [email |-> pendingUser.email,
                                 password |-> pendingUser.password,
                                 authProvider |-> "local", googleId |-> FALSE,
                                 emailVerified |-> TRUE, isActive |-> TRUE,
                                 refreshToken |-> NoToken],
                                {"password"})
                  IN  IF pendingUser.email \in DOMAIN users
                        THEN /\ response' = Thrown("verifyEmail", "MongoServerError")
                             /\ UNCHANGED <<users, pendingUsers, chosen>>
                        ELSE /\ users' = Put(users, user.email,
                                            userPreSave([user EXCEPT !.refreshToken = generateTokens(user).refreshToken],
                                                        {"refreshToken"}))
                             /\ pendingUsers' = Without(pendingUsers, user.email)
                             /\ chosen' = [chosen EXCEPT ![user.email].verified = TRUE]
                             /\ response' = Authenticated("verifyEmail", user)
        /\ UNCHANGED <<issued, storeVars>>

\* login with the password check left out
loginAnyPassword(body) ==
  IF body.email \notin DOMAIN users
    THEN AppError("login", 401, "Invalid email or password")
    ELSE LET user == users[body.email]
         IN  IF ~user.emailVerified
               THEN AppError("login", 403, "Please verify your email before logging in")
             ELSE IF ~user.isActive
               THEN AppError("login", 403, "Your account has been deactivated")
             ELSE Authenticated("login", user)

\* POST /api/auth/login: the answer
login(body) ==
  IF body.email \notin DOMAIN users
    THEN AppError("login", 401, "Invalid email or password")
    ELSE LET user == users[body.email]
         IN  IF ~user.emailVerified
               THEN AppError("login", 403, "Please verify your email before logging in")
             ELSE IF ~user.isActive
               THEN AppError("login", 403, "Your account has been deactivated")
             ELSE IF "password" \notin DOMAIN user
               THEN Thrown("login", "Error")
             ELSE IF ~comparePassword(user, body.password)
               THEN AppError("login", 401, "Invalid email or password")
             ELSE Authenticated("login", user)

\* POST /api/auth/login: the answer, and the refresh token saved on success
Login ==
  \E email \in Emails, password \in LoginPasswords :
    LET body == [email |-> email, password |-> password]
        res == login(body)
    IN  /\ request' = [op |-> "login", body |-> body]
        /\ response' = res
        /\ users' = IF res.status = 200
                      THEN [users EXCEPT ![email] =
                              userPreSave([@ EXCEPT !.refreshToken = res.body.refreshToken],
                                          {"refreshToken"})]
                      ELSE users
        /\ UNCHANGED <<pendingUsers, issued, chosen, storeVars>>

\* what verifyGoogleToken makes of the token sent: the Google account's
\* address, or nothing
GoogleTokens == Emails \cup {"bad"}

\* POST /api/auth/google
GoogleAuth ==
  \E token \in GoogleTokens :
    /\ request' = [op |-> "googleAuth", body |-> [token |-> token]]
    /\ IF token \notin Emails
         THEN /\ response' = Thrown("googleAuth", "Error")
              /\ users' = users
         ELSE LET user == IF token \in DOMAIN users
                            THEN IF users[token].googleId THEN users[token]
                                 ELSE [users[token] EXCEPT !.googleId = TRUE,
                                                           !.emailVerified = TRUE]
                            ELSE [email |-> token, authProvider |-> "google",
                                  googleId |-> TRUE, emailVerified |-> TRUE,
                                  isActive |-> TRUE, refreshToken |-> NoToken]
              IN  /\ users' = Put(users, token,
                                  userPreSave([user EXCEPT !.refreshToken = generateTokens(user).refreshToken],
                                              {"refreshToken"}))
                  /\ response' = Authenticated("googleAuth", user)
    /\ UNCHANGED <<pendingUsers, issued, chosen, storeVars>>

\* POST /api/auth/resend-verification
ResendVerification ==
  \E email \in Emails :
    /\ request' = [op |-> "resendVerification", body |-> [email |-> email]]
    /\ IF email \in DOMAIN users
         THEN /\ response' = AppError("resendVerification", 400, "Email is already verified")
              /\ UNCHANGED <<pendingUsers, issued>>
         ELSE IF email \notin DOMAIN pendingUsers
         THEN /\ response' = AppError("resendVerification", 404,
                                      "No pending verification found for this email")
              /\ UNCHANGED <<pendingUsers, issued>>
         ELSE /\ issued < MaxTokens
              /\ pendingUsers' = [pendingUsers EXCEPT ![email] =
                                    pendingUserPreSave(
                                      [@ EXCEPT !.verificationToken = issued + 1,
                                                !.expired = FALSE],
                                      {"verificationToken", "tokenExpiry"})]
              /\ issued' = issued + 1
              /\ response' = Done("resendVerification", 200, email)
    /\ UNCHANGED <<users, chosen, storeVars>>

\* the 24 hours of a verification token pass
TokenExpires ==
  \E email \in DOMAIN pendingUsers :
    /\ ~pendingUsers[email].expired
    /\ pendingUsers' = [pendingUsers EXCEPT ![email].expired = TRUE]
    /\ UNCHANGED <<request, response, users, issued, chosen, storeVars>>

\* the index on tokenExpiry removes a pending user an hour after expiry
PendingUserExpires ==
  \E email \in DOMAIN pendingUsers :
    /\ pendingUsers[email].expired
    /\ pendingUsers' = Without(pendingUsers, email)
    /\ UNCHANGED <<request, response, users, issued, chosen, storeVars>>

\* PUT /api/profile/password, for the user the access token names
ChangePassword ==
  \E email \in DOMAIN users, currentPassword \in LoginPasswords,
     newPassword \in SignupPasswords :
    LET user == users[email]
    IN  /\ request' = [op |-> "changePassword",
                       body |-> [email |-> email, currentPassword |-> currentPassword,
                                 newPassword |-> newPassword]]
        /\ IF "password" \notin DOMAIN user
             THEN /\ response' = AppError("changePassword", 400,
                                          "Cannot change password for OAuth accounts")
                  /\ UNCHANGED <<users, chosen>>
             ELSE IF ~comparePassword(user, currentPassword)
             THEN /\ response' = AppError("changePassword", 401,
                                          "Current password is incorrect")
                  /\ UNCHANGED <<users, chosen>>
             ELSE /\ users' = [users EXCEPT ![email] =
                                 userPreSave([user EXCEPT !.password = newPassword],
                                             {"password"})]
                  /\ chosen' = Without(chosen, email)
                  /\ response' = Done("changePassword", 200, email)
        /\ UNCHANGED <<pendingUsers, issued, storeVars>>

\* DELETE /api/profile, for the user the access token names
DeactivateAccount ==
  \E email \in DOMAIN users :
    /\ request' = [op |-> "deactivateAccount", body |-> [email |-> email]]
    /\ users' = [users EXCEPT ![email] =
                   userPreSave([@ EXCEPT !.isActive = FALSE, !.refreshToken = NoToken],
                               {"isActive", "refreshToken"})]
    /\ response' = Done("deactivateAccount", 200, email)
    /\ UNCHANGED <<pendingUsers, issued, chosen, storeVars>>

\* the last second the clock reaches
MaxClock == 2

\* a second passes
Tick ==
  /\ now < MaxClock
  /\ now' = now + 1
  /\ UNCHANGED <<subject, request, response, attendance, nextRecordId, calls,
                 created, users, pendingUsers, issued, chosen, timetable>>

\* verifyRefreshToken(token): jwt.verify under the refresh secret
verifyRefreshToken(token) == token[1] = "refresh"

\* request bodies of refreshToken: no token, a refresh token of any user and
\* second, or a string the refresh secret did not sign
RefreshBodies ==
  {<<>>} \cup
  { [refreshToken |-> t] :
      t \in { <<"refresh", e, i>> : e \in Emails, i \in 0..MaxClock }
            \cup { <<"access", e, 0>> : e \in Emails } }

\* User.findOne({ _id: decoded.userId, refreshToken: token }) finds the user
Accepts(token) ==
  /\ verifyRefreshToken(token)
  /\ token[2] \in DOMAIN users
  /\ users[token[2]].refreshToken = token

\* POST /api/auth/refresh
RefreshToken ==
  \E body \in RefreshBodies :
    /\ request' = [op |-> "refreshToken", body |-> body]
    /\ IF "refreshToken" \notin DOMAIN body
         THEN /\ response' = AppError("refreshToken", 400, "Refresh token is required")
              /\ users' = users
         ELSE IF ~verifyRefreshToken(body.refreshToken)
         THEN /\ response' = Thrown("refreshToken", "Error")
              /\ users' = users
         ELSE IF ~Accepts(body.refreshToken)
         THEN /\ response' = AppError("refreshToken", 401, "Invalid refresh token")
              /\ users' = users
         ELSE LET user == users[body.refreshToken[2]]
              IN  /\ users' = [users EXCEPT ![user.email] =
                                 userPreSave([user EXCEPT !.refreshToken =
                                                generateTokens(user).refreshToken],
                                             {"refreshToken"})]
                  /\ response' = [op |-> "refreshToken", status |-> 200,
                                  body |-> generateTokens(user)]
    /\ UNCHANGED <<pendingUsers, issued, chosen, storeVars>>

\* POST /api/auth/logout, for the user the access token names
Logout ==
  \E email \in DOMAIN users :
    /\ request' = [op |-> "logout", body |-> [email |-> email]]
    /\ users' = [users EXCEPT ![email] =
                   userPreSave([@ EXCEPT !.refreshToken = NoToken], {"refreshToken"})]
    /\ response' = Done("logout", 200, email)
    /\ UNCHANGED <<pendingUsers, issued, chosen, storeVars>>

\* ------------------------------------------------------------ the timetable
\* the most timetable entries of a run
MaxEntries == 2

\* A time of day as the string it is sent and stored as, character by
\* character in character codes: '0'..'9' are 48..57 and ':' is 58.
Zero == 48
Colon == 58

\* the texts /^([0-1]?[0-9]|2[0-3]):[0-5][0-9]$/ accepts for hour h and minute
\* m: an hour below 10 with its leading 0 or without
TimeText(h, m, padded) ==
  (IF h >= 10 THEN <<Zero + (h \div 10), Zero + (h % 10)>>
   ELSE IF padded THEN <<Zero, Zero + h>>
   ELSE <<Zero + h>>)
  \o <<Colon, Zero + (m \div 10), Zero + (m % 10)>>

\* the times requests give: 9:00, 09:00, 9:30 and 10:00
TimeTexts ==
  { TimeText(9, 0, FALSE), TimeText(9, 0, TRUE), TimeText(9, 30, FALSE),
    TimeText(10, 0, FALSE) }

DaysOfWeek == {"Monday", "Tuesday"}

\* a < b on strings, as the database compares them: by the first character
\* that differs, a proper prefix being the smaller
RECURSIVE StringLT(_, _)
StringLT(a, b) ==
  IF b = <<>> THEN FALSE
  ELSE IF a = <<>> THEN TRUE
  ELSE IF a[1] # b[1] THEN a[1] < b[1]
  ELSE StringLT(Tail(a), Tail(b))

\* Number(digits), for the one or two digits of an hour or a minute
NumberOf(digits) ==
  IF Len(digits) = 1 THEN digits[1] - Zero
  ELSE (digits[1] - Zero) * 10 + (digits[2] - Zero)

\* time.split(':').map(Number), then [0] * 60 + [1]
MinutesOf(time) ==
  LET colon == CHOOSE i \in 1..Len(time) : time[i] = Colon
  IN  NumberOf(SubSeq(time, 1, colon - 1)) * 60
        + NumberOf(SubSeq(time, colon + 1, Len(time)))

\* Timetable.find({ dayOfWeek, isActive: true, _id: { $ne: id },
\*                  startTime: { $lt: endTime }, endTime: { $gt: startTime } })
\* (createTimetableEntry has no _id to leave out: id is 0)
Conflicts(id, dayOfWeek, startTime, endTime) ==
  { e \in timetable :
      /\ e._id # id
      /\ e.dayOfWeek = dayOfWeek
      /\ e.isActive
      /\ StringLT(e.startTime, endTime)
      /\ StringLT(startTime, e.endTime) }

\* timetableSchema.pre('save'): the end is after the start, in minutes
EndsAfterStart(entry) == MinutesOf(entry.endTime) > MinutesOf(entry.startTime)

\* what the timetable handlers leave alone
timetableFrame ==
  <<subject, attendance, nextRecordId, calls, created, users, pendingUsers, issued,
    chosen, now>>

\* POST /api/timetable
CreateTimetableEntry ==
  \E subjectId \in RequestSubjectIds, dayOfWeek \in DaysOfWeek,
     startTime \in TimeTexts, endTime \in TimeTexts :
    LET body  == [subjectId |-> subjectId, dayOfWeek |-> dayOfWeek,
                  startTime |-> startTime, endTime |-> endTime]
        entry == [_id |-> Cardinality(timetable) + 1, dayOfWeek |-> dayOfWeek,
                  startTime |-> startTime, endTime |-> endTime, isActive |-> TRUE]
    IN  /\ request' = [op |-> "createTimetableEntry", body |-> body]
        /\ IF ~Found(subjectId)
             THEN /\ response' = AppError("createTimetableEntry", 404, "Subject not found")
                  /\ timetable' = timetable
             ELSE IF Conflicts(0, dayOfWeek, startTime, endTime) # {}
             THEN /\ response' = AppError("createTimetableEntry", 400,
                                          "Time slot conflicts with existing entry")
                  /\ timetable' = timetable
             ELSE IF ~EndsAfterStart(entry)
             THEN /\ response' = Thrown("createTimetableEntry", "Error")
                  /\ timetable' = timetable
             ELSE /\ Cardinality(timetable) < MaxEntries
                  /\ timetable' = timetable \cup {entry}
                  /\ response' = [op |-> "createTimetableEntry", status |-> 201,
                                  body |-> [entry |-> entry]]
    /\ UNCHANGED timetableFrame

\* request bodies of updateTimetableEntry: a day, a start and an end, each
\* given or not
UpdateTimetableBodies ==
  { Opt("dayOfWeek", d) @@ Opt("startTime", s) @@ Opt("endTime", e) :
      d \in {{}, {"Tuesday"}},
      s \in {{}, {TimeText(9, 0, TRUE)}, {TimeText(9, 30, FALSE)}},
      e \in {{}, {TimeText(9, 30, FALSE)}, {TimeText(10, 0, FALSE)}} }

\* req.body[field] || entry[field]
Either(body, entry, field) == IF field \in DOMAIN body THEN body[field] ELSE entry[field]

\* PUT /api/timetable/:id
UpdateTimetableEntry ==
  \E id \in 1..MaxEntries, body \in UpdateTimetableBodies :
    /\ request' = [op |-> "updateTimetableEntry", id |-> id, body |-> body]
    /\ IF ~\E e \in timetable : e._id = id
         THEN /\ response' = AppError("updateTimetableEntry", 404, "Timetable entry not found")
              /\ timetable' = timetable
         ELSE LET entry   == CHOOSE e \in timetable : e._id = id
                  updated == [f \in DOMAIN entry |-> Either(body, entry, f)]
              IN  IF /\ DOMAIN body # {}
                     /\ Conflicts(id, Either(body, entry, "dayOfWeek"),
                                  Either(body, entry, "startTime"),
                                  Either(body, entry, "endTime")) # {}
                  THEN /\ response' = AppError("updateTimetableEntry", 400,
                                               "Time slot conflicts with existing entry")
                       /\ timetable' = timetable
                  ELSE IF ~EndsAfterStart(updated)
                  THEN /\ response' = Thrown("updateTimetableEntry", "Error")
                       /\ timetable' = timetable
                  ELSE /\ timetable' = (timetable \ {entry}) \cup {updated}
                       /\ response' = [op |-> "updateTimetableEntry", status |-> 200,
                                       body |-> [entry |-> updated]]
    /\ UNCHANGED timetableFrame

\* DELETE /api/timetable/:id: a soft delete
DeleteTimetableEntry ==
  \E id \in 1..MaxEntries :
    /\ request' = [op |-> "deleteTimetableEntry", id |-> id, body |-> <<>>]
    /\ IF ~\E e \in timetable : e._id = id
         THEN /\ response' = AppError("deleteTimetableEntry", 404, "Timetable entry not found")
              /\ timetable' = timetable
         ELSE LET entry == CHOOSE e \in timetable : e._id = id
              IN  /\ timetable' = (timetable \ {entry}) \cup {[entry EXCEPT !.isActive = FALSE]}
                  /\ response' = [op |-> "deleteTimetableEntry", status |-> 200,
                                  body |-> <<>>]
    /\ UNCHANGED timetableFrame

\* ---------------------------------------------------------------- Next
Next ==
  \/ GetAttendancePercentage
  \/ GetClassesNeeded
  \/ GetSafeBunks
  \/ GetSubjectStats
  \/ PredictBunk
  \/ SimulateBunks

Spec == Init /\ [][Next]_vars

\* ------------------------------------------- the store under concurrent use
InitAttendance ==
  /\ subject = NoSubject
  /\ request = NoRequest
  /\ response = NoResponse
  /\ created = [totalLectures |-> 0, attendedLectures |-> 0, edited |-> FALSE]
  /\ Quiet

NextAttendance ==
  \/ CreateSubject
  \/ \E p \in Callers : AttendanceStep(p)
  \/ GetSubjectStats
  \/ Deliver

SpecAttendance == InitAttendance /\ [][NextAttendance]_vars

\* ------------------------------- the store with one request after another
NextSequential ==
  \/ CreateSubject
  \/ AttendanceStep(1)
  \/ GetSubjectStats
  \/ PredictBunk
  \/ BulkPredictBunk
  \/ SimulateBunks
  \/ GetAttendanceStats
  \/ Deliver

SpecSequential == InitAttendance /\ [][NextSequential]_vars

\* ------------------------------------- two callers marking two days at once
MaxMarked == 2
MarkedDates == {"d1", "d2"}

NextMarking ==
  \/ CreateSubject
  \/ \E p \in Callers :
        \/ MarkAttendanceLoadOn(p, MarkedDates, MaxMarked)
        \/ MarkAttendanceWrite(p)
        \/ SaveSubject(p)
  \/ Deliver

SpecMarking == InitAttendance /\ [][NextMarking]_vars

\* ------------------------------------------------ accounts, one request at a time
InitAuth ==
  /\ subject = NoSubject
  /\ request = NoRequest
  /\ response = NoResponse
  /\ created = [totalLectures |-> 0, attendedLectures |-> 0, edited |-> FALSE]
  /\ Quiet

NextAuth ==
  \/ Signup
  \/ VerifyEmail
  \/ Login
  \/ GoogleAuth
  \/ ResendVerification
  \/ TokenExpires
  \/ PendingUserExpires
  \/ ChangePassword
  \/ DeactivateAccount

SpecAuth == InitAuth /\ [][NextAuth]_vars

\* ------------------------------------------- sessions and their refresh tokens
NextSession ==
  \/ Signup
  \/ VerifyEmail
  \/ Login
  \/ GoogleAuth
  \/ RefreshToken
  \/ Logout
  \/ DeactivateAccount
  \/ Tick

SpecSession == InitAuth /\ [][NextSession]_vars

\* ------------------------------------------ the timetable of one user's subject
InitTimetable ==
  /\ subject = SubjectDefaults
  /\ request = NoRequest
  /\ response = NoResponse
  /\ created = [totalLectures |-> 0, attendedLectures |-> 0, edited |-> FALSE]
  /\ Quiet

NextTimetable ==
  \/ CreateTimetableEntry
  \/ UpdateTimetableEntry
  \/ DeleteTimetableEntry

SpecTimetable == InitTimetable /\ [][NextTimetable]_vars

\* ================================================================ claims
\* exact arithmetic on the stored subject, for stating the claims
Attended == subject.attendedLectures
Total    == subject.totalLectures
MinNum   == subject.minimumAttendance[1]
MinDen   == subject.minimumAttendance[2]

\* the 2-decimal percentage of attended out of total is below the minimum
\* (the percentage of no lectures is 0)
RoundedBelowMinimum(attended, total) ==
  IF total = 0 THEN 0 < MinNum
  ELSE ((attended * 20000 + total) \div (2 * total)) * MinDen < 100 * MinNum

\* attended / total * 100 >= minimum, exactly
StaysAtOrAbove(attended, total) == attended * 100 * MinDen >= MinNum * total

\* C1: for a subject with minimum > 0 whose rounded percentage is >= minimum,
\* safeBunks returns the largest b >= 0 such that attended / (total + k) * 100
\* >= minimum for every k in 1..b; for 38 of 40 at 75 it returns 10.
C1_SafeBunksIsLargest ==
  (response.op = "safeBunks" /\ response.status = 200
   /\ MinNum > 0 /\ ~RoundedBelowMinimum(Attended, Total))
  => LET b == response.body.value
     IN  /\ b >= 0
         /\ \A k \in 1..b : StaysAtOrAbove(Attended, Total + k)
         /\ ~StaysAtOrAbove(Attended, Total + b + 1)
         /\ (Attended = 38 /\ Total = 40 /\ subject.minimumAttendance = <<75, 1>>
             => b = 10)

\* C2: for a subject with minimum < 100, classesNeeded is 0 when the rounded
\* percentage is >= minimum, and otherwise the smallest n >= 1 such that
\* (attended + n) / (total + n) * 100 >= minimum; for 20 of 40 at 75 it is 40.
C2_ClassesNeededIsSmallest ==
  (response.op = "classesNeeded" /\ response.status = 200 /\ MinNum < 100 * MinDen)
  => LET n == response.body.value
     IN  IF ~RoundedBelowMinimum(Attended, Total) THEN n = 0
         ELSE /\ n >= 1
              /\ StaysAtOrAbove(Attended + n, Total + n)
              /\ \A k \in 1..(n - 1) : ~StaysAtOrAbove(Attended + k, Total + k)
              /\ (Attended = 20 /\ Total = 40 /\ subject.minimumAttendance = <<75, 1>>
                  => n = 40)

\* C3: reading safeBunks ends with a result for every valid subject, minimum
\* 0 and total 0 included: its search loop is never left running.
C3_SafeBunksTerminates ==
  ~(request.op \in {"safeBunks", "getSubjectStats", "predictBunk"}
    /\ response.op # "none" /\ response.status = 0
    /\ response.body.loop = "safeBunks")

\* C4: with minimum 100 and attended < total, reading classesNeeded ends (with
\* an "unreachable" result): its search loop is never left running.
C4_ClassesNeededTerminatesAt100 ==
  (request.op = "classesNeeded"
   /\ subject.minimumAttendance = <<100, 1>> /\ Attended < Total)
  => response.status = 200

\* the safeBunks a response reports, whichever operation reported it
ReportsSafeBunks ==
  response.status = 200 /\ response.op \in {"safeBunks", "getSubjectStats", "predictBunk"}
ReportedSafeBunks ==
  IF response.op = "safeBunks" THEN response.body.value ELSE response.body.safeBunks

\* C5: if the rounded percentage is below the minimum, safeBunks is 0.
C5_BelowMinimumNoSafeBunks ==
  (ReportsSafeBunks /\ RoundedBelowMinimum(Attended, Total)) => ReportedSafeBunks = 0

\* C5 witness: 37 of 40 lectures at a minimum of 100 (92.50 percent)
C5_Witness ==
  /\ response.op = "safeBunks" /\ response.status = 200 /\ response.body.value = 0
  /\ Attended = 37 /\ Total = 40 /\ subject.minimumAttendance = <<100, 1>>

\* C6: the percentage is 0 for total = 0, otherwise attended / total * 100
\* rounded to the nearest hundredth; it lies in [0, 100].
C6_PercentageRounded ==
  (response.op = "attendancePercentage")
  => LET p == response.body.value
         d == p * Total - Attended * 10000
     IN  /\ Total = 0 => p = 0
         /\ Total > 0 => (2 * d <= Total /\ -2 * d <= Total)
         /\ 0 <= p /\ p <= 10000

\* C6 witness: 2 of 3 lectures is 66.67 percent
C6_Witness ==
  /\ response.op = "attendancePercentage" /\ response.body.value = 6667
  /\ Attended = 2 /\ Total = 3

\* C7: a subject exactly at its threshold (total > 0, minimum > 0, attended *
\* 100 = minimum * total) has safeBunks 0 and classesNeeded 0.
C7_AtThresholdBothZero ==
  (response.op = "getSubjectStats" /\ response.status = 200
   /\ Total > 0 /\ MinNum > 0 /\ Attended * 100 * MinDen = MinNum * Total)
  => (response.body.safeBunks = 0 /\ response.body.classesNeeded = 0)

\* the subject as it would be stored after one more bunk
AfterBunk == [subject EXCEPT !.totalLectures = @ + 1]

\* C8 as stated: when canBunk is false predictBunk reports classesNeeded of
\* (attended, total + 1, minimum) plus one more; when canBunk is true, 0.
C8_RecoverIsNeededPlusOne ==
  (response.op = "predictBunk" /\ response.status = 200)
  => response.body.classesNeededToRecover =
       (IF response.body.canBunk THEN 0 ELSE classesNeeded(AfterBunk) + 1)

\* C8 as amended: when canBunk is false predictBunk reports exactly
\* classesNeeded of (attended, total + 1, minimum), the search count plus one
\* and nothing more; when canBunk is true, 0.
C8_RecoverIsNeededAfterBunk ==
  (response.op = "predictBunk" /\ response.status = 200)
  => response.body.classesNeededToRecover =
       (IF response.body.canBunk THEN 0 ELSE classesNeeded(AfterBunk))

\* C8 witness: 30 of 40 at 75; the bunk gives 30 of 41 (73.17), and three
\* attended classes bring 33 of 44 (75.00)
C8_Witness ==
  /\ response.op = "predictBunk" /\ response.status = 200
  /\ Attended = 30 /\ Total = 40 /\ subject.minimumAttendance = <<75, 1>>
  /\ ~response.body.canBunk /\ response.body.classesNeededToRecover = 3

C10_SimulationStep ==
  (response.op = "simulateBunks" /\ response.status = 200)
  => \A i \in 1..Len(response.body.simulation) :
       LET step == response.body.simulation[i]
           d    == step.attendance * (Total + i) - Attended * 10000
       IN  /\ step.totalLectures = Total + i
           /\ step.attendedLectures = Attended
           /\ 2 * d <= Total + i /\ -2 * d <= Total + i
           /\ step.isSafe = (step.attendance * MinDen >= 100 * MinNum)

\* C10 witness: 30 of 39 at 75, two bunks: step 1 is 30 of 40 (75.00, safe
\* at equality), step 2 is 30 of 41 (73.17, not safe)
C10_Witness ==
  /\ response.op = "simulateBunks" /\ response.status = 200
  /\ Attended = 30 /\ Total = 39 /\ subject.minimumAttendance = <<75, 1>>
  /\ Len(response.body.simulation) = 2
  /\ response.body.simulation[1].attendance = 7500 /\ response.body.simulation[1].isSafe
  /\ response.body.simulation[2].attendance = 7317 /\ ~response.body.simulation[2].isSafe

\* C11: turningPoint is the 1-based index of the first step that is not
\* safe, and null when every step is safe; analysis.safeBunks is turningPoint
\* - 1 in the first case and numberOfBunks in the second; for 10 of 10 at 75
\* and 5 bunks the attendance values strictly decrease and turningPoint is 4.
C11_TurningPoint ==
  (response.op = "simulateBunks" /\ response.status = 200)
  => LET simulation == response.body.simulation
         analysis   == response.body.analysis
         n          == request.body.numberOfBunks
     IN  /\ IF \A i \in 1..n : simulation[i].isSafe
            THEN analysis.turningPoint = Null /\ analysis.safeBunks = n
            ELSE /\ analysis.turningPoint \in 1..n
                 /\ ~simulation[analysis.turningPoint].isSafe
                 /\ \A i \in 1..(analysis.turningPoint - 1) : simulation[i].isSafe
                 /\ analysis.safeBunks = analysis.turningPoint - 1
         /\ (Attended = 10 /\ Total = 10 /\ subject.minimumAttendance = <<75, 1>> /\ n = 5)
            => /\ analysis.turningPoint = 4
               /\ \A i \in 1..4 : simulation[i + 1].attendance < simulation[i].attendance

\* C11 witness: 10 of 10 at 75, five bunks: steps 1..3 safe, step 4 (71.43) not
C11_Witness ==
  /\ response.op = "simulateBunks" /\ response.status = 200
  /\ Attended = 10 /\ Total = 10 /\ subject.minimumAttendance = <<75, 1>>
  /\ request.body.numberOfBunks = 5
  /\ response.body.simulation[3].isSafe /\ ~response.body.simulation[4].isSafe
  /\ response.body.simulation[4].attendance = 7143
  /\ response.body.analysis.turningPoint = 4 /\ response.body.analysis.safeBunks = 3

\* C12: prefix consistency: for the same subject and 1 <= k < n <= 50, the
\* first k records of the simulation of n bunks are the k records of the
\* simulation of k bunks.
C12_PrefixConsistent ==
  (response.op = "simulateBunks" /\ response.status = 200)
  => \A k \in 1..(request.body.numberOfBunks - 1) :
       SubSeq(response.body.simulation, 1, k)
         = SimulateLoop(<<>>, Attended, Total, 1, k, subject.minimumAttendance)

\* C12 witness: a simulation of 50 bunks whose records 49 and 50 differ in
\* safety, so that the prefix of 49 is cut inside the interesting part
C12_Witness ==
  /\ response.op = "simulateBunks" /\ response.status = 200
  /\ request.body.numberOfBunks = 50
  /\ response.body.simulation[49].isSafe /\ ~response.body.simulation[50].isSafe
  /\ Len(simulateBunks([subjectId |-> request.body.subjectId,
                        numberOfBunks |-> 49]).body.simulation) = 49

\* C13: for fixed attended and totals attended <= total < total', the
\* percentage of total' is at most that of total; within one simulation the
\* attendance never increases from a step to the next and no step is safe
\* after a step that is not.
C13_Monotone ==
  /\ (response.op = "attendancePercentage")
     => \A total1 \in (Total + 1)..(MaxTotal + 1) :
          attendancePercentage([subject EXCEPT !.totalLectures = total1])
            <= response.body.value
  /\ (response.op = "simulateBunks" /\ response.status = 200)
     => \A i \in 1..(Len(response.body.simulation) - 1) :
          /\ response.body.simulation[i + 1].attendance
               <= response.body.simulation[i].attendance
          /\ ~response.body.simulation[i].isSafe
               => ~response.body.simulation[i + 1].isSafe

\* C13 witness: 2 of 3 is 66.67 and a larger total gives strictly less
C13_Witness ==
  /\ response.op = "attendancePercentage" /\ response.body.value = 6667
  /\ Attended = 2 /\ Total = 3
  /\ attendancePercentage([subject EXCEPT !.totalLectures = 4]) = 5000

\* m1 <= m2, for minimums given as fractions
MinimumLE(m1, m2) == m1[1] * m2[2] <= m2[1] * m1[2]

\* C14: for fixed attended <= total, classesNeeded is non-decreasing in the
\* minimum, over the minimums on which it terminates.
C14_NeededMonotoneInMinimum ==
  (response.op = "classesNeeded" /\ response.status = 200)
  => \A m \in MinimumValues :
       LET other == classesNeeded([subject EXCEPT !.minimumAttendance = m])
       IN  other # Diverges
           => /\ MinimumLE(m, subject.minimumAttendance) => other <= response.body.value
              /\ MinimumLE(subject.minimumAttendance, m) => response.body.value <= other

\* C14 witness: 20 of 40 needs 40 classes at 75, 8 at 58 and none at 50
C14_Witness ==
  /\ response.op = "classesNeeded" /\ response.status = 200
  /\ Attended = 20 /\ Total = 40 /\ subject.minimumAttendance = <<75, 1>>
  /\ response.body.value = 40
  /\ classesNeeded([subject EXCEPT !.minimumAttendance = <<58, 1>>]) = 8
  /\ classesNeeded([subject EXCEPT !.minimumAttendance = <<50, 1>>]) = 0

\* the stored subject satisfies its schema's constraints
StoredSubjectValid ==
  /\ 0 <= subject.attendedLectures
  /\ subject.attendedLectures <= subject.totalLectures
  /\ 0 <= MinNum /\ MinNum <= 100 * MinDen

\* C15: a calculator operation invoked with total < 0, attended < 0, attended
\* > total or a minimum outside [0, 100] fails with an InvalidInput error and
\* returns no numeric result.
C15_InvalidInputRejected ==
  (response.op = "getSubjectStats" /\ request.body.subjectId = subject._id
   /\ ~StoredSubjectValid)
  => /\ response.status # 200
     /\ "currentAttendance" \notin DOMAIN response.body

\* the step is the answer of one of the calculator's handlers
CalculatorAnswers ==
  /\ response = NoResponse
  /\ response'.op \in {"predictBunk", "bulkPredictBunk", "simulateBunks",
                       "getSubjectStats", "getAttendanceStats"}

\* C16: predictBunk, bulkPredictBunk, simulateBunks, getSubjectStats and
\* getAttendanceStats leave the subject's counters and minimum and every
\* attendance record unchanged, whatever their inputs and outcome.
C16_CalculatorReadOnly ==
  [][CalculatorAnswers => UNCHANGED <<subject, attendance>>]_vars

\* C16 witness: predictBunk has answered for a subject that has a record
C16_Witness ==
  /\ response.op = "predictBunk" /\ response.status = 200
  /\ attendance # {}
  /\ response.body.details.currentTotal = subject.totalLectures
  /\ subject.totalLectures > 0

\* C17: after any createSubject, updateSubject, markAttendance,
\* updateAttendance and deleteAttendance requests, successful or failed, the
\* stored subject has 0 <= attendedLectures <= totalLectures and
\* 0 <= minimumAttendance <= 100.
C17_StoredSubjectStaysValid ==
  subject # NoSubject => StoredSubjectValid

\* C18: with one request after another and no counter edited through
\* updateSubject, between requests totalLectures minus the number of stored
\* records, and attendedLectures minus the number of stored 'present'
\* records, are what createSubject stored.
C18_CountersTrackRecords ==
  (subject # NoSubject /\ calls[1] = Idle /\ ~created.edited)
  => /\ subject.totalLectures - Cardinality(attendance) = created.totalLectures
     /\ subject.attendedLectures
          - Cardinality({ r \in attendance : r.status = "present" })
        = created.attendedLectures

\* C18 witness: a record marked absent has been updated to present, and the
\* subject has one more lecture, attended, than it was created with
C18_Witness ==
  /\ response.op = "updateAttendance" /\ response.status = 200
  /\ request.body = [status |-> "present"]
  /\ \E r \in attendance : r.status = "present"
  /\ ~created.edited /\ calls[1] = Idle
  /\ response.body.subject.attendedLectures = created.attendedLectures + 1
  /\ subject.attendedLectures = created.attendedLectures + 1
  /\ subject.totalLectures = created.totalLectures + 1

\* C19: a login with the address and the password of a signup that verifyEmail
\* has completed succeeds and returns an access token and a refresh token.
C19_LoginAfterVerify ==
  LET email == request.body.email
  IN  ( /\ response.op = "login"
        /\ email \in DOMAIN users
        /\ users[email].isActive
        /\ email \in DOMAIN chosen
        /\ chosen[email].verified
        /\ request.body.password = chosen[email].password )
      => ( /\ response.status = 200
           /\ {"accessToken", "refreshToken"} \subseteq DOMAIN response.body )

C26_CanBunkIffSafeBunks ==
  (response.op = "predictBunk" /\ response.status = 200 /\ MinNum > 0)
  => (response.body.canBunk = (response.body.safeBunks >= 1))

\* the two entries are on the same day and their times of day overlap: each
\* starts strictly before the other ends
Overlap(e1, e2) ==
  /\ e1.dayOfWeek = e2.dayOfWeek
  /\ MinutesOf(e1.startTime) < MinutesOf(e2.endTime)
  /\ MinutesOf(e2.startTime) < MinutesOf(e1.endTime)

\* C21: no two active timetable entries of the user on the same day of week
\* overlap in time, whatever accepted time texts were used.
C21_NoTimeConflict ==
  \A e1, e2 \in timetable :
    (e1._id # e2._id /\ e1.isActive /\ e2.isActive) => ~Overlap(e1, e2)

ChangesStatus(c) ==
  /\ c # Idle
  /\ c.op \in {"markAttendance", "updateAttendance"}
  /\ c.rec # NoRecord

\* the status the call asks for: updateAttendance without one keeps the old
RequestedStatus(c) ==
  IF "status" \in DOMAIN c.req.body THEN c.req.body.status ELSE c.rec.status

\* what a change of status from old to new adds to attendedLectures
AttendedDelta(old, new) ==
  IF old = "present" /\ new = "absent" THEN -1
  ELSE IF old = "absent" /\ new = "present" THEN 1
  ELSE 0

RecordsBefore(c) ==
  IF c.rec # NoRecord
  THEN { r \in attendance : r._id # c.rec._id } \cup {c.rec}
  ELSE { r \in attendance : r.date # c.req.body.date }

\* C24: a markAttendance, updateAttendance or deleteAttendance that ends in an
\* error leaves the attendance records and the subject as they were before
\* the request.
C24_AllOrNothing ==
  [][ ( /\ calls[1] # Idle
        /\ calls[1].op \in {"markAttendance", "updateAttendance", "deleteAttendance"}
        /\ calls'[1] = Idle
        /\ response'.status >= 400 )
      => ( /\ subject' = subject
           /\ attendance' = RecordsBefore(calls[1]) ) ]_vars

\* C25: when two markAttendance requests for two different days of a subject
\* overlap, both records are stored and totalLectures ends 2 above the value
\* the subject was created with (attendedLectures above by the number of
\* 'present' records).
C25_NoLostUpdate ==
  ( /\ \A p \in Callers : calls[p] = Idle
    /\ Cardinality(attendance) = 2 )
  => ( /\ subject.totalLectures = created.totalLectures + 2
       /\ subject.attendedLectures = created.attendedLectures
            + Cardinality({ r \in attendance : r.status = "present" }) )

\* the body carries a refresh token just issued to the user it names
IssuesRefreshToken(res) ==
  /\ res.status = 200
  /\ "refreshToken" \in DOMAIN res.body

\* C27: the refresh endpoint accepts at most one refresh token per user, the
\* one issued last; a token that a refresh has exchanged is not accepted
\* again, and after logout or deactivateAccount no token issued before is.
C27_OneRefreshToken ==
  [][ /\ IssuesRefreshToken(response')
        => \A t \in { b.refreshToken : b \in RefreshBodies \ {<<>>} } :
             (t[2] = response'.body.refreshToken[2]
              /\ users'[t[2]].refreshToken = t /\ t[1] = "refresh")
             <=> t = response'.body.refreshToken
      /\ (response'.op = "refreshToken" /\ response'.status = 200)
        => users'[request'.body.refreshToken[2]].refreshToken # request'.body.refreshToken
      /\ (response'.op \in {"logout", "deactivateAccount"} /\ response'.status = 200)
        => users'[request'.body.email].refreshToken = NoToken ]_vars

\* C28: a verifyEmail succeeds only with the current token of a pending signup
\* that has not expired and has no user yet; it makes the user and leaves no
\* pending signup with that token, and no token is ever handed out twice, so
\* a token verifies at most once and a replaced token never.
C28_TokenVerifiesOnce ==
  [][ /\ (response'.op = "verifyEmail" /\ response'.status = 200 /\ users' # users)
        => LET t == request'.body.token
               e == response'.body.email
           IN  /\ e \in DOMAIN pendingUsers
               /\ pendingUsers[e].verificationToken = t
               /\ ~pendingUsers[e].expired
               /\ e \notin DOMAIN users
               /\ e \in DOMAIN users'
               /\ \A x \in DOMAIN pendingUsers' : pendingUsers'[x].verificationToken # t
      /\ \A e \in DOMAIN pendingUsers' :
            (e \notin DOMAIN pendingUsers
               \/ pendingUsers'[e].verificationToken # pendingUsers[e].verificationToken)
            => pendingUsers'[e].verificationToken > issued
      /\ \A x, y \in DOMAIN pendingUsers' :
            pendingUsers'[x].verificationToken = pendingUsers'[y].verificationToken => x = y
      /\ \A e \in DOMAIN pendingUsers' : pendingUsers'[e].verificationToken <= issued' ]_vars

\* the first token of a signup was replaced, and the second has verified
C28_Witness ==
  /\ response.op = "verifyEmail"
  /\ response.status = 200
  /\ request.body.token = 2
  /\ issued = 2
  /\ response.body.email \in DOMAIN users
  /\ response.body.email \notin DOMAIN pendingUsers
  /\ pendingUsers = <<>>

\* no search loop of a terminating input comes near MaxIter: the loops that
\* are reported as not ending are those whose condition holds at every count
\* (minimum 0 in safeBunks; minimum 100 below full attendance in the two
\* recovery searches)
FuelSuffices ==
  /\ (safeBunks(subject) = Diverges) = (MinNum = 0)
  /\ (classesNeeded(subject) = Diverges) = (MinNum = 100 * MinDen /\ Attended < Total)
  /\ MinNum > 0 => safeBunks(subject) + 32 < MaxIter
  /\ classesNeeded(subject) + 32 < MaxIter
  /\ classesNeededToRecover(Attended, Total + 1, subject.minimumAttendance) + 32 < MaxIter
====
